---------------------------- MODULE Spec2Model ----------------------------
(***************************************************************************)
(* Model of the two dealer data-preparation scripts:                       *)
(*   firebase/scripts/process-dealer-excel.py   (the Importer)             *)
(*   firebase/scripts/expand-dealer-coverage.py (the Expander)             *)
(*                                                                         *)
(* A Python string is a sequence of one-character strings; None / NaN /    *)
(* an absent key is the record None, a present value v is Some(v).         *)
(*                                                                         *)
(* Three specifications:                                                   *)
(*   SpecClean    - the field-cleaning functions applied to one cell       *)
(*   SpecImporter - process_excel over a roster                            *)
(*   SpecExpander - main() of the Expander over a dealer array             *)
(***************************************************************************)
EXTENDS Integers, Sequences, FiniteSets, TLC

VARIABLES
    call,   \* SpecClean: the call made, [fn, arg, ret]
    imp,    \* SpecImporter: the locals of process_excel
    exp     \* SpecExpander: the locals of the Expander's main

vars == <<call, imp, exp>>

-----------------------------------------------------------------------------
(* Python values *)

None == [some |-> FALSE, val |-> <<>>]

Some(v) == [some |-> TRUE, val |-> v]

LowerLetters ==
    {"a","b","c","d","e","f","g","h","i","j","k","l","m",
     "n","o","p","q","r","s","t","u","v","w","x","y","z"}

UpperLetters ==
    {"A","B","C","D","E","F","G","H","I","J","K","L","M",
     "N","O","P","Q","R","S","T","U","V","W","X","Y","Z"}

Digits == {"0","1","2","3","4","5","6","7","8","9"}

Whitespace == {" ", "\t", "\n", "\r"}

DigitChar == <<"0","1","2","3","4","5","6","7","8","9">>

LowerOf ==
    ("A" :> "a") @@ ("B" :> "b") @@ ("C" :> "c") @@ ("D" :> "d") @@
    ("E" :> "e") @@ ("F" :> "f") @@ ("G" :> "g") @@ ("H" :> "h") @@
    ("I" :> "i") @@ ("J" :> "j") @@ ("K" :> "k") @@ ("L" :> "l") @@
    ("M" :> "m") @@ ("N" :> "n") @@ ("O" :> "o") @@ ("P" :> "p") @@
    ("Q" :> "q") @@ ("R" :> "r") @@ ("S" :> "s") @@ ("T" :> "t") @@
    ("U" :> "u") @@ ("V" :> "v") @@ ("W" :> "w") @@ ("X" :> "x") @@
    ("Y" :> "y") @@ ("Z" :> "z")

(* str.lower() *)
Lower(s) == [k \in 1..Len(s) |-> IF s[k] \in UpperLetters THEN LowerOf[s[k]] ELSE s[k]]

RECURSIVE LStrip(_, _)
LStrip(s, cs) ==
    IF s # <<>> /\ Head(s) \in cs THEN LStrip(Tail(s), cs) ELSE s

RECURSIVE RStrip(_, _)
RStrip(s, cs) ==
    IF s # <<>> /\ s[Len(s)] \in cs THEN RStrip(SubSeq(s, 1, Len(s) - 1), cs) ELSE s

(* str.strip() and str.strip(chars) *)
Strip(s, cs) == RStrip(LStrip(s, cs), cs)

(* str.split('\n')[0] *)
RECURSIVE FirstLine(_)
FirstLine(s) ==
    IF s = <<>> \/ Head(s) = "\n" THEN <<>> ELSE <<Head(s)>> \o FirstLine(Tail(s))

(* str.isdigit(): every character a digit, and at least one character *)
IsDigit(s) == s # <<>> /\ \A k \in 1..Len(s) : s[k] \in Digits

(* str.zfill(width), for strings without a sign *)
RECURSIVE ZFill(_, _)
ZFill(s, width) == IF Len(s) >= width THEN s ELSE ZFill(<<"0">> \o s, width)

(* s[:n] *)
Prefix(s, n) == IF Len(s) <= n THEN s ELSE SubSeq(s, 1, n)

(* str(n) for an integer n >= 0 *)
RECURSIVE IntToStr(_)
IntToStr(n) ==
    IF n < 10 THEN <<DigitChar[n + 1]>>
    ELSE IntToStr(n \div 10) \o <<DigitChar[(n % 10) + 1]>>

(* ''.join(c for c in s if c.isdigit()) *)
OnlyDigits(s) == SelectSeq(s, LAMBDA c : c \in Digits)

SeqToSet(s) == {s[k] : k \in 1..Len(s)}

-----------------------------------------------------------------------------
(* process-dealer-excel.py: the field-cleaning functions *)

(* re.sub(r'^c\s*-\s*', '', first): the pattern is anchored at the start,   *)
(* matches a lowercase "c" only, and both \s* are greedy.                   *)
StripCPrefix(first) ==
    IF first # <<>> /\ Head(first) = "c"
    THEN LET afterC == LStrip(Tail(first), Whitespace)
         IN  IF afterC # <<>> /\ Head(afterC) = "-"
             THEN LStrip(Tail(afterC), Whitespace)
             ELSE first
    ELSE first

clean_phone(phone_str) ==
    IF ~phone_str.some THEN None
    ELSE LET first == StripCPrefix(Strip(FirstLine(phone_str.val), Whitespace))
         IN  IF first # <<>> THEN Some(first) ELSE None

(* A spreadsheet ZIP cell is NaN (None), a float holding a whole number     *)
(* n >= 0 (kind "float", num n), or a string (kind "str", val s).           *)
clean_zip(zip_val) ==
    IF zip_val.kind = "nan" THEN None
    ELSE LET zip_str == IF zip_val.kind = "float" THEN IntToStr(zip_val.num)
                        ELSE zip_val.val
         IN  IF IsDigit(zip_str) THEN Some(ZFill(zip_str, 5)) ELSE Some(zip_str)

MaxIdLen == 50

IsAlnum(c) == c \in LowerLetters \cup UpperLetters \cup Digits

(* re.sub(r'[^a-zA-Z0-9]+', '_', s): every maximal run of characters that   *)
(* are not alphanumeric becomes one underscore; inRun says that the         *)
(* character before s was part of such a run.                               *)
RECURSIVE SubNonAlnumRuns(_, _)
SubNonAlnumRuns(s, inRun) ==
    IF s = <<>> THEN <<>>
    ELSE IF ~IsAlnum(Head(s))
         THEN (IF inRun THEN <<>> ELSE <<"_">>) \o SubNonAlnumRuns(Tail(s), TRUE)
         ELSE <<Head(s)>> \o SubNonAlnumRuns(Tail(s), FALSE)

(* re.sub(r'_+', '_', s) *)
RECURSIVE SubUnderscoreRuns(_, _)
SubUnderscoreRuns(s, inRun) ==
    IF s = <<>> THEN <<>>
    ELSE IF Head(s) = "_"
         THEN (IF inRun THEN <<>> ELSE <<"_">>) \o SubUnderscoreRuns(Tail(s), TRUE)
         ELSE <<Head(s)>> \o SubUnderscoreRuns(Tail(s), FALSE)

generate_dealer_id(name) ==
    LET clean1 == SubNonAlnumRuns(Strip(Lower(name), Whitespace), FALSE)
        clean2 == Strip(SubUnderscoreRuns(clean1, FALSE), {"_"})
    IN  Prefix(clean2, MaxIdLen)


-----------------------------------------------------------------------------
(* SpecClean: one cleaning function called once on one spreadsheet cell *)

MaxPhoneLen == 4

MaxTailLen == 3

SeqsUpTo(S, n) == UNION {[1..k -> S] : k \in 0..n}

PhoneChars == {"c", "C", " ", "-", "5", "\n"}

PhoneCells == {None} \cup {Some(s) : s \in SeqsUpTo(PhoneChars, MaxPhoneLen)}

NameChars == {"a", "B", " ", "_", "7"}

Pad(n) == [k \in 1..n |-> "a"]

(* Short names, and names whose 50-character cut falls inside their tail *)
IdNames ==
    {Pad(n) \o t : n \in {0, MaxIdLen - 2, MaxIdLen - 1, MaxIdLen},
                   t \in SeqsUpTo(NameChars, MaxTailLen)}

StrCell(s) == [kind |-> "str", num |-> 0, val |-> s]

FloatCell(n) == [kind |-> "float", num |-> n, val |-> <<>>]

NanCell == [kind |-> "nan", num |-> 0, val |-> <<>>]

ZipCells ==
    {NanCell, FloatCell(9), FloatCell(501), FloatCell(94105), FloatCell(123456),
     StrCell(<<"9">>), StrCell(<<"0","0","5","0","1">>),
     StrCell(<<"9","4","1","0","5">>),
     StrCell(<<"9","4","1","0","5","-","1","2","3","4">>),
     StrCell(<<"9","4","1","0","5","1","2","3","4">>),
     StrCell(<<" ","9","4","1","0","5">>)}

CallIdle == [fn |-> "none", arg |-> None, ret |-> None]

ImpIdle == [pc |-> "idle"]

ExpIdle == [pc |-> "idle"]

CallCleanPhone ==
    /\ call = CallIdle
    /\ \E cell \in PhoneCells :
        call' = [fn |-> "clean_phone", arg |-> cell, ret |-> clean_phone(cell)]

CallGenerateDealerId ==
    /\ call = CallIdle
    /\ \E name \in IdNames :
        call' = [fn |-> "generate_dealer_id", arg |-> Some(name),
                 ret |-> Some(generate_dealer_id(name))]

CallCleanZip ==
    /\ call = CallIdle
    /\ \E cell \in ZipCells :
        call' = [fn |-> "clean_zip", arg |-> cell, ret |-> clean_zip(cell)]

InitClean == call = CallIdle /\ imp = ImpIdle /\ exp = ExpIdle

NextClean ==
    \/ CallCleanPhone /\ UNCHANGED <<imp, exp>>
    \/ CallGenerateDealerId /\ UNCHANGED <<imp, exp>>
    \/ CallCleanZip /\ UNCHANGED <<imp, exp>>

SpecClean == InitClean /\ [][NextClean]_vars

-----------------------------------------------------------------------------
(* process-dealer-excel.py: process_excel                                   *)
(*                                                                          *)
(* A row of the '112 Dealers' sheet carries the cells the dealer_id, phone  *)
(* and ZIP fields are made from: dealer_name and phone are None (NaN) or    *)
(* Some(string), zip is a ZIP cell.  imp holds process_excel's locals:      *)
(*   pc "rows" (lines 75-98), "dedupe" (106-111), "save" (125-128), "done"  *)

MaxRows == 3

Unknown == <<"U","n","k","n","o","w","n">>

(* One record of the dealers list (lines 76-97) *)
MakeDealer(row, top50_names) ==
    LET name == IF row.dealer_name.some
                THEN Strip(row.dealer_name.val, Whitespace) ELSE Unknown
        is_top50 == Strip(Lower(name), Whitespace) \in top50_names
    IN  [dealer_id |-> generate_dealer_id(name),
         dealer_name |-> name,
         primary_phone |-> clean_phone(row.phone),
         address |-> [zip |-> clean_zip(row.zip)],
         coverage_zips |-> IF row.zip.kind # "nan"
                           THEN <<clean_zip(row.zip).val>> ELSE <<>>,
         priority_weight |-> IF is_top50 THEN 100 ELSE 50,
         is_top50 |-> is_top50]

(* set(df_top50['dealer_name'].str.lower().str.strip()) *)
Top50Names(sheet) == {Strip(Lower(n), Whitespace) : n \in sheet}

(* ids.count(x) *)
Count(ids, x) == Cardinality({k \in 1..Len(ids) : ids[k] = x})

(* seen.get(base_id, 0) *)
SeenGet(seen, base_id) == IF base_id \in DOMAIN seen THEN seen[base_id] ELSE 0

(* Mutant of SuffixedId: the suffix counts the duplicates, not the rows *)
SuffixedIdFromZero(base_id, n) == base_id \o <<"_">> \o IntToStr(n - 1)

(* f"{base_id}_{n}" *)
SuffixedId(base_id, n) == base_id \o <<"_">> \o IntToStr(n)

(* One iteration of the loop of lines 106-111: the dealer and seen after it *)
DedupeDealer(d, ids, seen) ==
    LET base_id == d.dealer_id
    IN  IF Count(ids, base_id) > 1
        THEN LET n == SeenGet(seen, base_id) + 1
             IN  [seen |-> (base_id :> n) @@ seen,
                  dealer |-> IF n > 1
                             THEN [d EXCEPT !.dealer_id = SuffixedId(base_id, n)]
                             ELSE d]
        ELSE [seen |-> seen, dealer |-> d]

RosterNames ==
    {Some(<<"a">>), Some(<<"A">>), Some(<<"a"," ","2">>), Some(<<"b">>), None}

RosterZipCells ==
    {NanCell, FloatCell(501),
     StrCell(<<"9","4","1","0","5","-","1","2","3","4">>),
     StrCell(<<"9","4","1","0","5","1","2","3","4">>)}

BaseRow == [dealer_name |-> Some(<<"a">>), zip |-> FloatCell(501), phone |-> None]

RowSet ==
    {[BaseRow EXCEPT !.dealer_name = n] : n \in RosterNames}
    \cup {[BaseRow EXCEPT !.zip = z] : z \in RosterZipCells}
    \cup {[BaseRow EXCEPT !.phone = Some(<<"c"," ","-"," ","5">>)]}

Top50Sheets == {{}, {<<"A"," ">>}}

InitImporter ==
    /\ call = CallIdle
    /\ exp = ExpIdle
    /\ \E n \in 1..MaxRows : \E rows \in [1..n -> RowSet] : \E sheet \in Top50Sheets :
         imp = [pc |-> "rows", rows |-> rows, top50_names |-> Top50Names(sheet),
                dealers |-> <<>>, ids |-> <<>>, seen |-> <<>>, j |-> 0,
                saved |-> None]

(* lines 75-98: one row of the roster becomes one dealer *)
ProcessRow ==
    /\ imp.pc = "rows"
    /\ Len(imp.dealers) < Len(imp.rows)
    /\ imp' = [imp EXCEPT !.dealers =
                 Append(@, MakeDealer(imp.rows[Len(imp.dealers) + 1], imp.top50_names))]

(* lines 101-105: the ids before the pass, and whether any occurs twice *)
CollectIds ==
    /\ imp.pc = "rows"
    /\ Len(imp.dealers) = Len(imp.rows)
    /\ LET ids == [k \in 1..Len(imp.dealers) |-> imp.dealers[k].dealer_id]
           duplicates == {x \in SeqToSet(ids) : Count(ids, x) > 1}
       IN  imp' = [imp EXCEPT !.ids = ids,
                              !.seen = <<>>,
                              !.j = 1,
                              !.pc = IF duplicates # {} THEN "dedupe" ELSE "save"]

(* lines 106-111: one iteration of the duplicate-handling loop *)
DedupeNext ==
    /\ imp.pc = "dedupe"
    /\ imp.j <= Len(imp.dealers)
    /\ LET r == DedupeDealer(imp.dealers[imp.j], imp.ids, imp.seen)
       IN  imp' = [imp EXCEPT !.dealers[imp.j] = r.dealer,
                              !.seen = r.seen,
                              !.j = imp.j + 1,
                              !.pc = IF imp.j = Len(imp.dealers) THEN "save" ELSE "dedupe"]

(* lines 125-130: json.dump(dealers) *)
SaveJson ==
    /\ imp.pc = "save"
    /\ imp' = [imp EXCEPT !.saved = Some(imp.dealers), !.pc = "done"]

NextImporter ==
    \/ ProcessRow /\ UNCHANGED <<call, exp>>
    \/ CollectIds /\ UNCHANGED <<call, exp>>
    \/ DedupeNext /\ UNCHANGED <<call, exp>>
    \/ SaveJson /\ UNCHANGED <<call, exp>>

SpecImporter == InitImporter /\ [][NextImporter]_vars

-----------------------------------------------------------------------------
(* expand-dealer-coverage.py                                                *)
(*                                                                          *)
(* Coordinates are in tenths of a degree.  The reference tables of the      *)
(* model lie on one meridian (dlon = 0), where the haversine formula        *)
(*   a = sin^2(dlat/2),  c = 2 atan2(sqrt a, sqrt(1-a)) = |dlat| (radians)  *)
(* gives R * |dlat| * pi / 180 miles.  A distance is kept exact as a count  *)
(* of 1/UnitsPerMile miles, with pi taken as 3142/1000.                     *)

EarthRadiusMiles == 3959

DEFAULT_RADIUS_MILES == 50

UnitsPerMile == 180 * 10 * 1000

Abs(x) == IF x < 0 THEN -x ELSE x

(* haversine_vec for one point of the array; defined for dlon = 0 only *)
haversine_vec(lat1, lon1, lat2, lon2) ==
    CASE lon2 - lon1 = 0 -> EarthRadiusMiles * 3142 * Abs(lat2 - lat1)

(* Mutant of WithinRadius: a strict comparison *)
StrictlyWithinRadius(distance, radius_miles) == distance < radius_miles * UnitsPerMile

(* mask = distances <= radius_miles *)
WithinRadius(distance, radius_miles) == distance <= radius_miles * UnitsPerMile

(* Lines 87-94: zip_coords and all_zip_list (the keys in insertion order)   *)
(* after the first n rows of valid; a later row of the same ZIP overwrites  *)
(* the coordinates and keeps the key's place.                               *)
RECURSIVE LoadTable(_, _)
LoadTable(valid, n) ==
    IF n = 0 THEN [zip_coords |-> <<>>, all_zip_list |-> <<>>]
    ELSE LET before == LoadTable(valid, n - 1)
             row == valid[n]
             z == ZFill(row.postal_code, 5)
         IN  [zip_coords |-> (z :> <<row.latitude, row.longitude>>) @@ before.zip_coords,
              all_zip_list |-> IF z \in DOMAIN before.zip_coords
                               THEN before.all_zip_list
                               ELSE Append(before.all_zip_list, z)]

(* Order of Python strings, for strings of digits *)
Ord(c) == CHOOSE k \in 1..10 : DigitChar[k] = c

RECURSIVE StrLess(_, _)
StrLess(a, b) ==
    IF b = <<>> THEN FALSE
    ELSE IF a = <<>> THEN TRUE
    ELSE IF Head(a) # Head(b) THEN Ord(Head(a)) < Ord(Head(b))
    ELSE StrLess(Tail(a), Tail(b))

(* sorted(...) of a list of distinct strings, given as their set *)
RECURSIVE Sorted(_)
Sorted(S) ==
    IF S = {} THEN <<>>
    ELSE LET least == CHOOSE x \in S : \A y \in S : x = y \/ StrLess(x, y)
         IN  <<least>> \o Sorted(S \ {least})

(* Lines 139-146: the sorted ZIPs within the radius of dealer_zip *)
NearbyZips(dealer_zip, radius_miles, zip_coords, all_zip_list) ==
    LET center == zip_coords[dealer_zip]
        distances == [j \in 1..Len(all_zip_list) |->
                        haversine_vec(center[1], center[2],
                                      zip_coords[all_zip_list[j]][1],
                                      zip_coords[all_zip_list[j]][2])]
    IN  Sorted({all_zip_list[j] : j \in
                  {j \in 1..Len(all_zip_list) : WithinRadius(distances[j], radius_miles)}})

(* `not dealer_zip`: None (also an absent key) and the empty string *)
NoZip(zip) == ~zip.some \/ zip.val = <<>>

(* Mutant of NormalizeZip: no padding *)
NormalizeZipUnpadded(dealer_zip) ==
    LET stripped == Strip(dealer_zip, Whitespace)
    IN  Prefix(IF ~IsDigit(stripped) THEN OnlyDigits(stripped) ELSE stripped, 5)

(* Mutant of NormalizeZip: no cut to 5 characters *)
NormalizeZipUntruncated(dealer_zip) ==
    LET stripped == Strip(dealer_zip, Whitespace)
    IN  ZFill(IF ~IsDigit(stripped) THEN OnlyDigits(stripped) ELSE stripped, 5)

(* Lines 126-129 *)
NormalizeZip(dealer_zip) ==
    LET stripped == Strip(dealer_zip, Whitespace)
        digits == IF ~IsDigit(stripped) THEN OnlyDigits(stripped) ELSE stripped
    IN  Prefix(ZFill(digits, 5), 5)

(* Lines 119-123 *)
DealerNoZip(dealer) == [dealer EXCEPT !.coverage_zips = <<>>]

(* Mutant of DealerNotFound: the radius is recorded on the fallback too *)
DealerNotFoundWithRadius(dealer, dealer_zip) ==
    [dealer EXCEPT !.coverage_zips = <<dealer_zip>>,
                   !.coverage_radius_miles = Some(exp.radius_miles)]

(* Lines 132-136 *)
DealerNotFound(dealer, dealer_zip) ==
    [dealer EXCEPT !.coverage_zips = <<dealer_zip>>]

(* Mutant of DealerExpanded: the normalized ZIP is written back *)
DealerExpandedZipRewritten(dealer, nearby_zips, radius_miles) ==
    [dealer EXCEPT !.coverage_zips = nearby_zips,
                   !.coverage_radius_miles = Some(radius_miles),
                   !.address.zip = Some(Prefix(ZFill(OnlyDigits(@.val), 5), 5))]

(* Lines 148-150 *)
DealerExpanded(dealer, nearby_zips, radius_miles) ==
    [dealer EXCEPT !.coverage_zips = nearby_zips,
                   !.coverage_radius_miles = Some(radius_miles)]

(* Line 121 *)
StatsNoZip(stats) == [stats EXCEPT !.skipped_no_zip = @ + 1]

(* Line 134 *)
StatsNotFound(stats) == [stats EXCEPT !.skipped_not_found = @ + 1]

(* Lines 153-157; min_coverage None is float('inf') *)
StatsExpanded(stats, coverage_count) ==
    [stats EXCEPT !.expanded = @ + 1,
                  !.total_zips = @ + coverage_count,
                  !.min_coverage = IF ~@.some \/ coverage_count < @.val
                                   THEN Some(coverage_count) ELSE @,
                  !.max_coverage = IF coverage_count > @ THEN coverage_count ELSE @]

(* Reference tables: rows of valid (postal_code, latitude, longitude) *)
TableRow(z, lat, lon) == [postal_code |-> z, latitude |-> lat, longitude |-> lon]

Zip00501 == <<"0","0","5","0","1">>

Zip00544 == <<"0","0","5","4","4">>

Zip11742 == <<"1","1","7","4","2">>

Zip12345 == <<"1","2","3","4","5">>

(* 00501 and 00544 share their coordinates; 11742 lies 0.4 degrees (27.6    *)
(* miles) and 12345 1.0 degree (69.1 miles) to the north.                   *)
TableA ==
    <<TableRow(Zip00501, 408, -730), TableRow(Zip00544, 408, -730),
      TableRow(Zip11742, 412, -730), TableRow(Zip12345, 418, -730)>>

(* An unpadded postal code, and a ZIP listed twice with different latitudes *)
TableB ==
    <<TableRow(Zip12345, 400, -730), TableRow(<<"5","0","1">>, 408, -730),
      TableRow(Zip12345, 415, -730)>>

Tables == {TableA, TableB}

Radii == {-1, 0, 30, DEFAULT_RADIUS_MILES, 70}

(* json.load of a record the Importer wrote: no coverage_radius_miles key *)
Loaded(d) ==
    [dealer_id |-> d.dealer_id, dealer_name |-> d.dealer_name,
     primary_phone |-> d.primary_phone, address |-> d.address,
     coverage_zips |-> d.coverage_zips, priority_weight |-> d.priority_weight,
     is_top50 |-> d.is_top50, coverage_radius_miles |-> None]

ExpanderZipCells ==
    {NanCell, FloatCell(9), FloatCell(501), StrCell(Zip12345),
     StrCell(<<" ","0","0","5","4","4">>),
     StrCell(<<"1","2","3","4","5","-","6","7","8","9">>),
     StrCell(<<"9","4","1","0","5","-","1","2","3","4">>),
     StrCell(<<"9","4","1","0","5","1","2","3","4">>)}

(* Records as process_excel writes them *)
ImporterRecords ==
    {Loaded(MakeDealer([BaseRow EXCEPT !.zip = z], {})) : z \in ExpanderZipCells}

(* Other dealer files: hand-written ZIPs, and the output of an earlier run *)
OtherRecords ==
    LET base == Loaded(MakeDealer(BaseRow, {}))
    IN  {[base EXCEPT !.address.zip = Some(<<"9">>), !.coverage_zips = <<<<"9">>>>],
         [base EXCEPT !.address.zip = Some(<<>>), !.coverage_zips = <<Zip12345>>],
         [base EXCEPT !.coverage_zips = <<Zip00501, Zip00544, Zip11742>>,
                      !.coverage_radius_miles = Some(25)],
         [base EXCEPT !.address.zip = Some(<<"9","9","9","9","9">>),
                      !.coverage_zips = <<Zip11742>>,
                      !.coverage_radius_miles = Some(25)]}

MaxDealers == 2

NewStats ==
    [expanded |-> 0, skipped_no_zip |-> 0, skipped_not_found |-> 0,
     total_zips |-> 0, min_coverage |-> None, max_coverage |-> 0]

(* exp holds main's locals: pc "load" (lines 61-100), "loop" (114-161),     *)
(* "done" (after line 166); input is the content of the input file, output  *)
(* the content of the output file and writes the number of times written.   *)
InitExpander ==
    /\ call = CallIdle
    /\ imp = ImpIdle
    /\ \E radius \in Radii : \E valid \in Tables : \E n \in 1..MaxDealers :
       \E file \in [1..n -> ImporterRecords \cup OtherRecords] :
         exp = [pc |-> "load", radius_miles |-> radius, valid |-> valid,
                zip_coords |-> <<>>, all_zip_list |-> <<>>,
                input |-> file, dealers |-> <<>>, i |-> 0,
                stats |-> NewStats, output |-> None, writes |-> 0]

(* Lines 75-112: the reference table, the dealers and the counters *)
LoadData ==
    /\ exp.pc = "load"
    /\ LET t == LoadTable(exp.valid, Len(exp.valid))
       IN  exp' = [exp EXCEPT !.zip_coords = t.zip_coords,
                              !.all_zip_list = t.all_zip_list,
                              !.dealers = exp.input,
                              !.i = 1,
                              !.stats = NewStats,
                              !.pc = "loop"]

Current == exp.dealers[exp.i]

InLoop == exp.pc = "loop" /\ exp.i <= Len(exp.dealers)

(* Lines 119-123 *)
SkipNoZip ==
    /\ InLoop
    /\ NoZip(Current.address.zip)
    /\ exp' = [exp EXCEPT !.dealers[exp.i] = DealerNoZip(Current),
                          !.stats = StatsNoZip(@),
                          !.i = @ + 1]

(* Lines 126-136 *)
SkipNotFound ==
    /\ InLoop
    /\ ~NoZip(Current.address.zip)
    /\ LET dealer_zip == NormalizeZip(Current.address.zip.val)
       IN  /\ dealer_zip \notin DOMAIN exp.zip_coords
           /\ exp' = [exp EXCEPT !.dealers[exp.i] = DealerNotFound(Current, dealer_zip),
                                 !.stats = StatsNotFound(@),
                                 !.i = @ + 1]

(* Lines 126-157 *)
ExpandDealer ==
    /\ InLoop
    /\ ~NoZip(Current.address.zip)
    /\ LET dealer_zip == NormalizeZip(Current.address.zip.val)
       IN  /\ dealer_zip \in DOMAIN exp.zip_coords
           /\ LET nearby_zips == NearbyZips(dealer_zip, exp.radius_miles,
                                            exp.zip_coords, exp.all_zip_list)
              IN  exp' = [exp EXCEPT
                            !.dealers[exp.i] =
                                DealerExpanded(Current, nearby_zips, exp.radius_miles),
                            !.stats = StatsExpanded(@, Len(nearby_zips)),
                            !.i = @ + 1]

(* Lines 163-166: json.dump(dealers) once the loop has ended *)
SaveOutput ==
    /\ exp.pc = "loop"
    /\ exp.i > Len(exp.dealers)
    /\ exp' = [exp EXCEPT !.output = Some(exp.dealers),
                          !.writes = @ + 1,
                          !.pc = "done"]

NextExpander ==
    \/ LoadData /\ UNCHANGED <<call, imp>>
    \/ SkipNoZip /\ UNCHANGED <<call, imp>>
    \/ SkipNotFound /\ UNCHANGED <<call, imp>>
    \/ ExpandDealer /\ UNCHANGED <<call, imp>>
    \/ SaveOutput /\ UNCHANGED <<call, imp>>

SpecExpander == InitExpander /\ [][NextExpander]_vars

-----------------------------------------------------------------------------
(* Claims about the cleaning functions, under SpecClean *)

(* C2: for every dealer name, generate_dealer_id returns a string made only *)
(* of lowercase letters, digits and underscores, with no two underscores in *)
(* a row, no leading and no trailing underscore, and at most 50 characters. *)
C2_IdWellFormed ==
    call.fn = "generate_dealer_id" =>
        LET id == call.ret.val
        IN  /\ \A k \in 1..Len(id) : id[k] \in LowerLetters \cup Digits \cup {"_"}
            /\ \A k \in 1..(Len(id) - 1) : ~(id[k] = "_" /\ id[k + 1] = "_")
            /\ id # <<>> => (id[1] # "_" /\ id[Len(id)] # "_")
            /\ Len(id) <= 50

(* The phone cleaning as the claim words it: the prefix letter is "c" in    *)
(* either case.                                                             *)
ClaimedCleanPhone(cell) ==
    IF ~cell.some THEN None
    ELSE LET first == Strip(FirstLine(cell.val), Whitespace)
             afterC == IF first # <<>> THEN LStrip(Tail(first), Whitespace) ELSE <<>>
             rest == IF /\ first # <<>>
                        /\ Head(first) \in {"c", "C"}
                        /\ afterC # <<>>
                        /\ Head(afterC) = "-"
                     THEN LStrip(Tail(afterC), Whitespace)
                     ELSE first
         IN  IF rest # <<>> THEN Some(rest) ELSE None

(* C10: for every phone cell, clean_phone returns the first line, trimmed,  *)
(* with a leading "c"/"C", optional whitespace, dash, optional whitespace   *)
(* removed, and None when the cell is missing or the result is empty.       *)
C10_PhonePrefixAnyCase ==
    call.fn = "clean_phone" => call.ret = ClaimedCleanPhone(call.arg)

-----------------------------------------------------------------------------
(* Claims about process_excel, under SpecImporter *)

FiveDigits(z) == Len(z) = 5 /\ \A k \in 1..Len(z) : z[k] \in Digits

(* C1: for every roster, the array process_excel returns after the          *)
(* duplicate-handling pass holds no two records with the same dealer_id.    *)
C1_DealerIdsUnique ==
    imp.pc = "done" =>
        \A k, l \in 1..Len(imp.saved.val) :
            k # l => imp.saved.val[k].dealer_id # imp.saved.val[l].dealer_id

(* The identifier generated for row k, and its rank among the rows with the *)
(* same generated identifier, in row order.                                 *)
BaseIdOfRow(k) == MakeDealer(imp.rows[k], imp.top50_names).dealer_id

Occurrences(b) == {k \in 1..Len(imp.rows) : BaseIdOfRow(k) = b}

RankOfRow(k) == Cardinality({l \in Occurrences(BaseIdOfRow(k)) : l <= k})

(* C3: for every generated identifier b that occurs more than once, the     *)
(* first row with it keeps dealer_id = b and the k-th row with it gets      *)
(* b + "_" + k; records whose identifier occurs once are left unchanged.    *)
C3_SuffixesInRowOrder ==
    imp.pc = "done" =>
        /\ Len(imp.saved.val) = Len(imp.rows)
        /\ \A k \in 1..Len(imp.rows) :
             LET made == MakeDealer(imp.rows[k], imp.top50_names)
                 b == made.dealer_id
             IN  imp.saved.val[k] =
                   IF RankOfRow(k) >= 2
                   THEN [made EXCEPT !.dealer_id = b \o <<"_">> \o IntToStr(RankOfRow(k))]
                   ELSE made

(* A run where one identifier occurs three times (ranks 1, 2 and 3) *)
C3_Witness ==
    /\ imp.pc = "done"
    /\ \E k \in 1..Len(imp.rows) :
         /\ RankOfRow(k) = 3
         /\ imp.saved.val[k].dealer_id = <<"a", "_", "3">>

(* C7: in every record the Importer writes and in every record the Expander *)
(* writes, every element of coverage_zips is a string of exactly 5 digits.  *)
C7_CoverageZipsFiveDigits ==
    /\ imp.pc = "done" =>
         \A k \in 1..Len(imp.saved.val) :
             \A z \in SeqToSet(imp.saved.val[k].coverage_zips) : FiveDigits(z)
    /\ exp.pc = "done" =>
         \A k \in 1..Len(exp.output.val) :
             \A z \in SeqToSet(exp.output.val[k].coverage_zips) : FiveDigits(z)

-----------------------------------------------------------------------------
(* Claims about the Expander, under SpecExpander *)

(* The normalization in the spec's words: whitespace stripped, non-digits   *)
(* removed, zero-padded and cut to 5 characters.                            *)
NormalizedZip(zip) == Prefix(ZFill(OnlyDigits(Strip(zip.val, Whitespace)), 5), 5)

RefZips == DOMAIN exp.zip_coords

HasZip(d) == d.address.zip.some /\ d.address.zip.val # <<>>

Found(d) == HasZip(d) /\ NormalizedZip(d.address.zip) \in RefZips

Processed(k) == exp.pc = "done" \/ (exp.pc = "loop" /\ k < exp.i)

(* Computed distance between two reference ZIPs, in 1/UnitsPerMile miles *)
Distance(z1, z2) ==
    haversine_vec(exp.zip_coords[z1][1], exp.zip_coords[z1][2],
                  exp.zip_coords[z2][1], exp.zip_coords[z2][2])

RadiusSet(own) ==
    {z \in RefZips : Distance(own, z) <= exp.radius_miles * UnitsPerMile}

(* C4: for every dealer whose normalized ZIP is in the reference table,     *)
(* coverage_zips is exactly the set of reference ZIPs within the radius,    *)
(* and it contains the dealer's own normalized ZIP.                         *)
C4_CoverageIsRadiusSet ==
    \A k \in 1..Len(exp.dealers) :
        (Processed(k) /\ Found(exp.input[k])) =>
            LET own == NormalizedZip(exp.input[k].address.zip)
                coverage == SeqToSet(exp.dealers[k].coverage_zips)
            IN  coverage = RadiusSet(own) /\ own \in coverage

(* C4 as amended: the set is exact for every radius; the own ZIP is in it   *)
(* when the radius is not negative.                                         *)
C4_CoverageIsRadiusSetNonNegative ==
    \A k \in 1..Len(exp.dealers) :
        (Processed(k) /\ Found(exp.input[k])) =>
            LET own == NormalizedZip(exp.input[k].address.zip)
                coverage == SeqToSet(exp.dealers[k].coverage_zips)
            IN  /\ coverage = RadiusSet(own)
                /\ exp.radius_miles >= 0 => own \in coverage

(* A run at 30 miles where a dealer covers three of the four table ZIPs *)
C4_Witness ==
    /\ exp.pc = "done"
    /\ exp.radius_miles = 30
    /\ Cardinality(RefZips) = 4
    /\ \E k \in 1..Len(exp.dealers) :
         /\ Found(exp.input[k])
         /\ exp.dealers[k].coverage_zips = <<Zip00501, Zip00544, Zip11742>>

(* C5: the loop writes coverage_radius_miles on a record if and only if its *)
(* normalized ZIP is found: a found record ends with the run's radius, and  *)
(* every other record keeps the key as it was (absent stays absent).        *)
C5_RadiusWrittenIffFound ==
    \A k \in 1..Len(exp.dealers) :
        exp.dealers[k].coverage_radius_miles =
            IF Processed(k) /\ Found(exp.input[k])
            THEN Some(exp.radius_miles)
            ELSE exp.input[k].coverage_radius_miles

(* A run with a found dealer that gains the key and a dealer with a ZIP     *)
(* that is not in the table and stays without it.                           *)
C5_Witness ==
    /\ exp.pc = "done"
    /\ \E k, l \in 1..Len(exp.dealers) :
         /\ Found(exp.input[k])
         /\ ~exp.input[k].coverage_radius_miles.some
         /\ exp.output.val[k].coverage_radius_miles = Some(exp.radius_miles)
         /\ HasZip(exp.input[l])
         /\ ~Found(exp.input[l])
         /\ ~exp.output.val[l].coverage_radius_miles.some

(* C6: with radius 0, a not yet expanded Importer record ends with          *)
(* coverage_zips = [own ZIP] when its ZIP is found, and unchanged when not. *)
C6_RadiusZeroRoundTrip ==
    (exp.pc = "done" /\ exp.radius_miles = 0) =>
        \A k \in 1..Len(exp.input) :
            exp.input[k] \in ImporterRecords =>
                IF Found(exp.input[k])
                THEN exp.output.val[k].coverage_zips =
                        <<NormalizedZip(exp.input[k].address.zip)>>
                ELSE exp.output.val[k] = exp.input[k]

StrictlyIncreasing(zips) ==
    \A k \in 1..(Len(zips) - 1) : StrLess(zips[k], zips[k + 1])

(* C6 as amended: with radius 0, a found record ends with the sorted list   *)
(* of the reference ZIPs at computed distance 0 from its own normalized     *)
(* ZIP, which is one of them; a record with a ZIP that is not found keeps   *)
(* every field but coverage_zips, which becomes [normalized ZIP] (its old   *)
(* value when the Importer's ZIP was 5 digits); a record with no ZIP is     *)
(* unchanged.                                                               *)
C6_RadiusZeroSameCoordinates ==
    (exp.pc = "done" /\ exp.radius_miles = 0) =>
        \A k \in 1..Len(exp.input) :
            exp.input[k] \in ImporterRecords =>
                LET before == exp.input[k]
                    after == exp.output.val[k]
                    own == NormalizedZip(before.address.zip)
                IN  /\ Found(before) =>
                          /\ SeqToSet(after.coverage_zips) =
                                {z \in RefZips : Distance(own, z) = 0}
                          /\ own \in SeqToSet(after.coverage_zips)
                          /\ StrictlyIncreasing(after.coverage_zips)
                    /\ (HasZip(before) /\ ~Found(before)) =>
                          /\ after = [before EXCEPT !.coverage_zips = <<own>>]
                          /\ FiveDigits(before.address.zip.val) => after = before
                    /\ ~HasZip(before) => after = before

(* A radius-0 run where one Importer record ends with two ZIPs of the same  *)
(* coordinates and another, whose ZIP+4 is not found, ends with the 5-digit *)
(* normalized ZIP.                                                          *)
C6_Witness ==
    /\ exp.pc = "done"
    /\ exp.radius_miles = 0
    /\ \E k, l \in 1..Len(exp.input) :
         /\ exp.input[k] \in ImporterRecords
         /\ exp.output.val[k].coverage_zips = <<Zip00501, Zip00544>>
         /\ exp.input[l] \in ImporterRecords
         /\ exp.input[l].coverage_zips = <<<<"9","4","1","0","5","-","1","2","3","4">>>>
         /\ exp.output.val[l].coverage_zips = <<<<"9","4","1","0","5">>>>

NoZipDealers == {k \in 1..Len(exp.input) : ~HasZip(exp.input[k])}

NotFoundDealers ==
    {k \in 1..Len(exp.input) : HasZip(exp.input[k]) /\ ~Found(exp.input[k])}

(* C8: when the run ends every dealer is counted in exactly one counter:    *)
(* a dealer with no ZIP gets coverage_zips = [] and counts as               *)
(* skipped_no_zip, a dealer whose normalized ZIP is not in the table gets   *)
(* [normalized ZIP] and counts as skipped_not_found, every other dealer     *)
(* counts as expanded; the three counters add up to the number of dealers.  *)
C8_ThreeOutcomesCounted ==
    exp.pc = "done" =>
        /\ exp.stats.expanded + exp.stats.skipped_no_zip
             + exp.stats.skipped_not_found = Len(exp.input)
        /\ exp.stats.skipped_no_zip = Cardinality(NoZipDealers)
        /\ exp.stats.skipped_not_found = Cardinality(NotFoundDealers)
        /\ exp.stats.expanded =
             Len(exp.input) - Cardinality(NoZipDealers \cup NotFoundDealers)
        /\ \A k \in NoZipDealers : exp.output.val[k].coverage_zips = <<>>
        /\ \A k \in NotFoundDealers :
             exp.output.val[k].coverage_zips = <<NormalizedZip(exp.input[k].address.zip)>>

(* A run over a dealer with ZIP "9", which ends as ["00009"], and a dealer  *)
(* with no ZIP.                                                             *)
C8_Witness ==
    /\ exp.pc = "done"
    /\ exp.stats.skipped_no_zip = 1
    /\ exp.stats.skipped_not_found = 1
    /\ \E k \in 1..Len(exp.input) :
         /\ exp.input[k].address.zip = Some(<<"9">>)
         /\ exp.output.val[k].coverage_zips = <<<<"0","0","0","0","9">>>>
         /\ ~exp.output.val[k].coverage_radius_miles.some

(* A record without the two fields the Expander may write *)
Untouched(d) == [d EXCEPT !.coverage_zips = <<>>, !.coverage_radius_miles = None]

(* C9: the array written has the length and the order of the array read,    *)
(* every field other than coverage_zips and coverage_radius_miles keeps its *)
(* value, and the output is written once, after every dealer was processed. *)
C9_FrameAndSingleWrite ==
    /\ exp.pc \in {"load", "loop"} => (exp.writes = 0 /\ exp.output = None)
    /\ exp.pc = "done" =>
         /\ exp.writes = 1
         /\ exp.i = Len(exp.input) + 1
         /\ exp.output = Some(exp.dealers)
         /\ Len(exp.output.val) = Len(exp.input)
         /\ \A k \in 1..Len(exp.input) :
              Untouched(exp.output.val[k]) = Untouched(exp.input[k])

(* A run over two different dealers, one of them expanded from a ZIP the    *)
(* Importer passed through with a leading blank.                            *)
C9_Witness ==
    /\ exp.pc = "done"
    /\ Len(exp.input) = 2
    /\ exp.input[1] # exp.input[2]
    /\ exp.output.val # exp.input
    /\ \E k \in 1..2 :
         /\ exp.input[k].address.zip = Some(<<" ","0","0","5","4","4">>)
         /\ exp.output.val[k].coverage_radius_miles = Some(exp.radius_miles)

=============================================================================
